---- MODULE Spec2Model ----
(***************************************************************************)
(* The rules engine of src/src/tetris.ts (class TetrisGame) as a state     *)
(* machine: one variable per field of the class, one action per public     *)
(* command, every private method an operator on the record of the fields.  *)
(*                                                                         *)
(* Arrays are 0-based in the source and 1-based here: board[y + 1][x + 1]  *)
(* is the source's board[y][x].  Times are whole milliseconds.             *)
(***************************************************************************)
EXTENDS Integers, Sequences, FiniteSets, TLC

VARIABLES
    board,            \* BoardCell[][]: TOTAL_ROWS rows of COLS cells
    queue,            \* PieceType[]: upcoming piece types
    active,           \* ActivePiece | null
    holdPiece,        \* PieceType | null
    canHold,
    gravityTimer,
    gravityInterval,
    lockTimer,
    grounded,
    softDropActive,
    state,            \* 'playing' | 'paused' | 'over'
    score,
    level,
    lines,
    combo,
    backToBack,
    dequeued,         \* history: the types shifted off the queue since the last reset
    locks,            \* history: the rows cleared by each lock since the last reset
    trail,            \* history: the commands issued since construction
    prev,             \* history: the object as it was when the last one was issued
    rested,           \* history: ms of update calls that began with the piece as it is, grounded
    script,           \* exploration: the scenario being replayed (0: none)
    pc,               \* exploration: next position in the scenario
    free              \* exploration: commands left outside a scenario

engineVars == <<board, queue, active, holdPiece, canHold, gravityTimer,
                gravityInterval, lockTimer, grounded, softDropActive, state,
                score, level, lines, combo, backToBack>>

vars == <<board, queue, active, holdPiece, canHold, gravityTimer,
          gravityInterval, lockTimer, grounded, softDropActive, state,
          score, level, lines, combo, backToBack, dequeued, locks, trail, prev,
          rested, script, pc, free>>

----------------------------------------------------------------------------
(* Constants of tetris.ts *)

COLS == 10
VISIBLE_ROWS == 20
TOTAL_ROWS == 22
LOCK_DELAY_MS == 500
SOFT_DROP_INTERVAL == 50
LINE_SCORES == <<0, 100, 300, 500, 800>>

NULL == "null"

SPAWN_POSITIONS ==
    [I |-> [x |-> 3, y |-> -2],
     O |-> [x |-> 3, y |-> -1],
     T |-> [x |-> 3, y |-> -1],
     S |-> [x |-> 3, y |-> -1],
     Z |-> [x |-> 3, y |-> -1],
     J |-> [x |-> 3, y |-> -1],
     L |-> [x |-> 3, y |-> -1]]

----------------------------------------------------------------------------
(* The piece catalog ('./tetromino', imported at tetris.ts:1).  The file   *)
(* is not part of the sources at hand; the tables are the guideline (SRS)  *)
(* ones the specification's section 9 describes: per type an ordered       *)
(* sequence of 4 rotation matrices, and per (type, from, to) an ordered    *)
(* sequence of offsets beginning with the identity.  A matrix is kept as   *)
(* the set of its truthy <<row, col>> entries; offsets are <<dx, dy>> with *)
(* y growing downwards, as rotate() adds them to the anchor.               *)

PIECE_TYPES == <<"I", "O", "T", "S", "Z", "J", "L">>

PieceTypeSet == {PIECE_TYPES[i] : i \in 1..Len(PIECE_TYPES)}

TETROMINO_SHAPES ==
    [I |-> << {<<1,0>>, <<1,1>>, <<1,2>>, <<1,3>>},
              {<<0,2>>, <<1,2>>, <<2,2>>, <<3,2>>},
              {<<2,0>>, <<2,1>>, <<2,2>>, <<2,3>>},
              {<<0,1>>, <<1,1>>, <<2,1>>, <<3,1>>} >>,
     O |-> << {<<0,1>>, <<0,2>>, <<1,1>>, <<1,2>>},
              {<<0,1>>, <<0,2>>, <<1,1>>, <<1,2>>},
              {<<0,1>>, <<0,2>>, <<1,1>>, <<1,2>>},
              {<<0,1>>, <<0,2>>, <<1,1>>, <<1,2>>} >>,
     T |-> << {<<0,1>>, <<1,0>>, <<1,1>>, <<1,2>>},
              {<<0,1>>, <<1,1>>, <<1,2>>, <<2,1>>},
              {<<1,0>>, <<1,1>>, <<1,2>>, <<2,1>>},
              {<<0,1>>, <<1,0>>, <<1,1>>, <<2,1>>} >>,
     S |-> << {<<0,1>>, <<0,2>>, <<1,0>>, <<1,1>>},
              {<<0,1>>, <<1,1>>, <<1,2>>, <<2,2>>},
              {<<1,1>>, <<1,2>>, <<2,0>>, <<2,1>>},
              {<<0,0>>, <<1,0>>, <<1,1>>, <<2,1>>} >>,
     Z |-> << {<<0,0>>, <<0,1>>, <<1,1>>, <<1,2>>},
              {<<0,2>>, <<1,1>>, <<1,2>>, <<2,1>>},
              {<<1,0>>, <<1,1>>, <<2,1>>, <<2,2>>},
              {<<0,1>>, <<1,0>>, <<1,1>>, <<2,0>>} >>,
     J |-> << {<<0,0>>, <<1,0>>, <<1,1>>, <<1,2>>},
              {<<0,1>>, <<0,2>>, <<1,1>>, <<2,1>>},
              {<<1,0>>, <<1,1>>, <<1,2>>, <<2,2>>},
              {<<0,1>>, <<1,1>>, <<2,0>>, <<2,1>>} >>,
     L |-> << {<<0,2>>, <<1,0>>, <<1,1>>, <<1,2>>},
              {<<0,1>>, <<1,1>>, <<2,1>>, <<2,2>>},
              {<<1,0>>, <<1,1>>, <<1,2>>, <<2,0>>},
              {<<0,0>>, <<0,1>>, <<1,1>>, <<2,1>>} >>]

\* Offsets of the three-wide pieces, keyed by <<from, to>>.
JLSTZ_KICKS(from, to) ==
    CASE from = 0 /\ to = 1 -> << <<0,0>>, <<-1,0>>, <<-1,-1>>, <<0,2>>,  <<-1,2>> >>
      [] from = 1 /\ to = 0 -> << <<0,0>>, <<1,0>>,  <<1,1>>,   <<0,-2>>, <<1,-2>> >>
      [] from = 1 /\ to = 2 -> << <<0,0>>, <<1,0>>,  <<1,1>>,   <<0,-2>>, <<1,-2>> >>
      [] from = 2 /\ to = 1 -> << <<0,0>>, <<-1,0>>, <<-1,-1>>, <<0,2>>,  <<-1,2>> >>
      [] from = 2 /\ to = 3 -> << <<0,0>>, <<1,0>>,  <<1,-1>>,  <<0,2>>,  <<1,2>> >>
      [] from = 3 /\ to = 2 -> << <<0,0>>, <<-1,0>>, <<-1,1>>,  <<0,-2>>, <<-1,-2>> >>
      [] from = 3 /\ to = 0 -> << <<0,0>>, <<-1,0>>, <<-1,1>>,  <<0,-2>>, <<-1,-2>> >>
      [] from = 0 /\ to = 3 -> << <<0,0>>, <<1,0>>,  <<1,-1>>,  <<0,2>>,  <<1,2>> >>
      [] OTHER -> << <<0,0>> >>

I_KICKS(from, to) ==
    CASE from = 0 /\ to = 1 -> << <<0,0>>, <<-2,0>>, <<1,0>>,  <<-2,1>>,  <<1,-2>> >>
      [] from = 1 /\ to = 0 -> << <<0,0>>, <<2,0>>,  <<-1,0>>, <<2,-1>>,  <<-1,2>> >>
      [] from = 1 /\ to = 2 -> << <<0,0>>, <<-1,0>>, <<2,0>>,  <<-1,-2>>, <<2,1>> >>
      [] from = 2 /\ to = 1 -> << <<0,0>>, <<1,0>>,  <<-2,0>>, <<1,2>>,   <<-2,-1>> >>
      [] from = 2 /\ to = 3 -> << <<0,0>>, <<2,0>>,  <<-1,0>>, <<2,-1>>,  <<-1,2>> >>
      [] from = 3 /\ to = 2 -> << <<0,0>>, <<-2,0>>, <<1,0>>,  <<-2,1>>,  <<1,-2>> >>
      [] from = 3 /\ to = 0 -> << <<0,0>>, <<1,0>>,  <<-2,0>>, <<1,2>>,   <<-2,-1>> >>
      [] from = 0 /\ to = 3 -> << <<0,0>>, <<-1,0>>, <<2,0>>,  <<-1,-2>>, <<2,1>> >>
      [] OTHER -> << <<0,0>> >>

getKickData(type, from, to) ==
    IF type = "I" THEN I_KICKS(from, to)
    ELSE IF type = "O" THEN << <<0,0>> >>
    ELSE JLSTZ_KICKS(from, to)

----------------------------------------------------------------------------
(* Values *)

NoPiece == [type |-> NULL, rotation |-> 0, x |-> 0, y |-> 0]   \* active = null

EmptyRow == [c \in 1..COLS |-> NULL]

createBoard == [r \in 1..TOTAL_ROWS |-> EmptyRow]

\* The fields of the class as one record, so that a method is an operator
\* from the object before the call to the object after it.
Engine ==
    [board |-> board, queue |-> queue, active |-> active, holdPiece |-> holdPiece,
     canHold |-> canHold, gravityTimer |-> gravityTimer,
     gravityInterval |-> gravityInterval, lockTimer |-> lockTimer,
     grounded |-> grounded, softDropActive |-> softDropActive, state |-> state,
     score |-> score, level |-> level, lines |-> lines, combo |-> combo,
     backToBack |-> backToBack, dequeued |-> dequeued, locks |-> locks]

HasActive(g) == g.active.type # NULL

\* The last command issued; "new" stands for the constructor.
last == IF trail = <<>> THEN [op |-> "new", arg |-> 0] ELSE trail[Len(trail)]

----------------------------------------------------------------------------
(* Math.random(): a call returns k / RandomScale for some k in             *)
(* 0 .. RandomScale - 1; RandomScale is a common multiple of 2..7, so      *)
(* every index the shuffle can draw is the image of some k.                *)

ZeroDraws == <<0, 0, 0, 0, 0, 0>>

RandomScale == 4 * 3 * 5 * 7

\* shuffle (Fisher-Yates, from the last index down to 1).  draws[n] is the
\* n-th value Math.random() returns during the call.
\* Faulty variant of the shuffle: the element is copied, not swapped.
RECURSIVE shuffleFrom_copies(_, _, _)
shuffleFrom_copies(values, i, draws) ==
    IF i <= 0 THEN values
    ELSE LET j == (draws[Len(values) - i] * (i + 1)) \div RandomScale
         IN shuffleFrom_copies([values EXCEPT ![i + 1] = values[j + 1]], i - 1, draws)

RECURSIVE shuffleFrom(_, _, _)
shuffleFrom(values, i, draws) ==
    IF i <= 0 THEN values
    ELSE LET j == (draws[Len(values) - i] * (i + 1)) \div RandomScale
             swapped == [values EXCEPT ![i + 1] = values[j + 1],
                                       ![j + 1] = values[i + 1]]
         IN shuffleFrom(swapped, i - 1, draws)

shuffle(values, draws) == shuffleFrom(values, Len(values) - 1, draws)

----------------------------------------------------------------------------
(* Private methods *)

getMatrix(type, rotation) == TETROMINO_SHAPES[type][(rotation % 4) + 1]

\* Faulty variant of collides: a cell above row 0 collides.
collides_ceiling(b, type, x, y, rotation) ==
    \E cell \in getMatrix(type, rotation) :
        LET boardX == x + cell[2]
            boardY == y + cell[1]
        IN \/ boardX < 0
           \/ boardX >= COLS
           \/ boardY >= TOTAL_ROWS
           \/ boardY < 0
           \/ (boardY >= 0 /\ b[boardY + 1][boardX + 1] # NULL)

collides(b, type, x, y, rotation) ==
    \E cell \in getMatrix(type, rotation) :
        LET boardX == x + cell[2]
            boardY == y + cell[1]
        IN \/ boardX < 0
           \/ boardX >= COLS
           \/ boardY >= TOTAL_ROWS
           \/ (boardY >= 0 /\ b[boardY + 1][boardX + 1] # NULL)

checkGrounded(g) ==
    IF ~HasActive(g) THEN FALSE
    ELSE collides(g.board, g.active.type, g.active.x, g.active.y + 1, g.active.rotation)

\* Faulty variant of endGame: the piece stays where it was.
endGame_keepsActive(g) ==
    [g EXCEPT !.state = "over", !.softDropActive = FALSE]

\* Faulty variant of endGame: the score is cleared with the piece.
endGame_clearsScore(g) ==
    [g EXCEPT !.state = "over", !.active = NoPiece, !.softDropActive = FALSE,
              !.score = 0]

endGame(g) ==
    [g EXCEPT !.state = "over", !.active = NoPiece, !.softDropActive = FALSE]

\* The loop body runs at most once: a bag has 7 entries.
refillQueue(g, draws) ==
    IF Len(g.queue) < 7
    THEN [g EXCEPT !.queue = g.queue \o shuffle(PIECE_TYPES, draws)]
    ELSE g

createPiece(type) ==
    [type |-> type, rotation |-> 0,
     x |-> SPAWN_POSITIONS[type].x, y |-> SPAWN_POSITIONS[type].y]

spawnNextPiece(g, draws) ==
    LET g1 == refillQueue(g, draws)
    IN IF Len(g1.queue) = 0 THEN g1
       ELSE LET nextType == Head(g1.queue)
                g2 == [g1 EXCEPT !.queue = Tail(g1.queue),
                                 !.dequeued = Append(g1.dequeued, nextType),
                                 !.active = createPiece(nextType),
                                 !.canHold = TRUE]
                g3 == [g2 EXCEPT !.grounded = checkGrounded(g2),
                                 !.lockTimer = 0,
                                 !.softDropActive = FALSE,
                                 !.gravityTimer = 0]
            IN IF collides(g3.board, g3.active.type, g3.active.x, g3.active.y,
                           g3.active.rotation)
               THEN endGame(g3)
               ELSE g3

\* Math.max(50, Math.pow(speed, levelIndex) * 1000) with
\* speed = Math.max(0.1, 0.8 - levelIndex * 0.007), in thousandths.  The
\* value is exact for levels 1 and 2 (1000, 793) and is rounded down to a
\* whole millisecond from level 3 on.
RECURSIVE Pow(_, _)
Pow(b, n) == IF n = 0 THEN 1 ELSE b * Pow(b, n - 1)

Max(a, b) == IF a >= b THEN a ELSE b

computeGravityInterval(g) ==
    LET levelIndex == Max(0, g.level - 1)
        speed == Max(100, 800 - levelIndex * 7)
    IN Max(50, (Pow(speed, levelIndex) * 1000) \div Pow(1000, levelIndex))

\* Faulty variant of handleLineScoring: the level is recomputed before it
\* is used as the multiplier.
handleLineScoring_newLevel(g, linesCleared) ==
    LET g1 ==
          IF linesCleared > 0
          THEN LET levelMultiplier == ((g.lines + linesCleared) \div 10) + 1
                   baseScore == LINE_SCORES[linesCleared + 1]
                   isTetris == linesCleared = 4
                   lineScore == IF isTetris /\ g.backToBack > 0
                                THEN (baseScore * levelMultiplier * 3) \div 2
                                ELSE baseScore * levelMultiplier
                   newCombo == IF g.combo >= 0 THEN g.combo + 1 ELSE 0
                   bonus == IF newCombo > 0 THEN 50 * newCombo * levelMultiplier ELSE 0
               IN [g EXCEPT !.lines = g.lines + linesCleared,
                            !.score = g.score + lineScore + bonus,
                            !.combo = newCombo,
                            !.backToBack = IF isTetris THEN g.backToBack + 1 ELSE 0]
          ELSE [g EXCEPT !.combo = -1,
                         !.backToBack = IF g.backToBack > 0 THEN 0 ELSE g.backToBack]
        g2 == [g1 EXCEPT !.level = (g1.lines \div 10) + 1]
    IN [g2 EXCEPT !.gravityInterval = computeGravityInterval(g2)]

\* Faulty variant of handleLineScoring: a lock that clears no row leaves the
\* back-to-back counter alone.
handleLineScoring_keepsBackToBack(g, linesCleared) ==
    LET g1 ==
          IF linesCleared > 0
          THEN LET levelMultiplier == g.level
                   baseScore == LINE_SCORES[linesCleared + 1]
                   isTetris == linesCleared = 4
                   lineScore == IF isTetris /\ g.backToBack > 0
                                THEN (baseScore * levelMultiplier * 3) \div 2
                                ELSE baseScore * levelMultiplier
                   newCombo == IF g.combo >= 0 THEN g.combo + 1 ELSE 0
                   bonus == IF newCombo > 0 THEN 50 * newCombo * levelMultiplier ELSE 0
               IN [g EXCEPT !.lines = g.lines + linesCleared,
                            !.score = g.score + lineScore + bonus,
                            !.combo = newCombo,
                            !.backToBack = IF isTetris THEN g.backToBack + 1 ELSE 0]
          ELSE [g EXCEPT !.combo = -1]
        g2 == [g1 EXCEPT !.level = (g1.lines \div 10) + 1]
    IN [g2 EXCEPT !.gravityInterval = computeGravityInterval(g2)]

\* Faulty variant of handleLineScoring: the level is computed from the line
\* total before the lock.
handleLineScoring_staleLevel(g, linesCleared) ==
    LET g1 ==
          IF linesCleared > 0
          THEN LET levelMultiplier == g.level
                   baseScore == LINE_SCORES[linesCleared + 1]
                   isTetris == linesCleared = 4
                   lineScore == IF isTetris /\ g.backToBack > 0
                                THEN (baseScore * levelMultiplier * 3) \div 2
                                ELSE baseScore * levelMultiplier
                   newCombo == IF g.combo >= 0 THEN g.combo + 1 ELSE 0
                   bonus == IF newCombo > 0 THEN 50 * newCombo * levelMultiplier ELSE 0
               IN [g EXCEPT !.lines = g.lines + linesCleared,
                            !.score = g.score + lineScore + bonus,
                            !.combo = newCombo,
                            !.backToBack = IF isTetris THEN g.backToBack + 1 ELSE 0]
          ELSE [g EXCEPT !.combo = -1,
                         !.backToBack = IF g.backToBack > 0 THEN 0 ELSE g.backToBack]
        g2 == [g1 EXCEPT !.level = (g.lines \div 10) + 1]
    IN [g2 EXCEPT !.gravityInterval = computeGravityInterval(g2)]

handleLineScoring(g, linesCleared) ==
    LET g1 ==
          IF linesCleared > 0
          THEN LET levelMultiplier == g.level
                   baseScore == LINE_SCORES[linesCleared + 1]
                   isTetris == linesCleared = 4
                   lineScore == IF isTetris /\ g.backToBack > 0
                                THEN (baseScore * levelMultiplier * 3) \div 2
                                ELSE baseScore * levelMultiplier
                   newCombo == IF g.combo >= 0 THEN g.combo + 1 ELSE 0
                   bonus == IF newCombo > 0 THEN 50 * newCombo * levelMultiplier ELSE 0
               IN [g EXCEPT !.lines = g.lines + linesCleared,
                            !.score = g.score + lineScore + bonus,
                            !.combo = newCombo,
                            !.backToBack = IF isTetris THEN g.backToBack + 1 ELSE 0]
          ELSE [g EXCEPT !.combo = -1,
                         !.backToBack = IF g.backToBack > 0 THEN 0 ELSE g.backToBack]
        g2 == [g1 EXCEPT !.level = (g1.lines \div 10) + 1]
    IN [g2 EXCEPT !.gravityInterval = computeGravityInterval(g2)]

IsFull(row) == \A c \in 1..COLS : row[c] # NULL

\* Faulty variant of the scan of clearLines: after a removal the scan moves
\* on to the row above without looking at the same index again.
RECURSIVE clearFrom_movesOn(_, _, _)
clearFrom_movesOn(b, row, cleared) ==
    IF row < 0 THEN [board |-> b, cleared |-> cleared]
    ELSE IF IsFull(b[row + 1])
         THEN LET spliced == [r \in 1..(TOTAL_ROWS - 1) |->
                                 IF r < row + 1 THEN b[r] ELSE b[r + 1]]
                  unshifted == <<EmptyRow>> \o spliced
              IN clearFrom_movesOn(unshifted, row - 1, cleared + 1)
         ELSE clearFrom_movesOn(b, row - 1, cleared)

\* clearLines: the scan from the bottom row upwards; after a removal the
\* same index is looked at again.  Returns the board and the count.
RECURSIVE clearFrom(_, _, _)
clearFrom(b, row, cleared) ==
    IF row < 0 THEN [board |-> b, cleared |-> cleared]
    ELSE IF IsFull(b[row + 1])
         THEN LET spliced == [r \in 1..(TOTAL_ROWS - 1) |->
                                 IF r < row + 1 THEN b[r] ELSE b[r + 1]]
                  unshifted == <<EmptyRow>> \o spliced
              IN clearFrom(unshifted, row, cleared + 1)
         ELSE clearFrom(b, row - 1, cleared)

clearLines(b) == clearFrom(b, TOTAL_ROWS - 1, 0)

\* The cells lockPiece writes: the piece's cells inside the grid.
stamp(b, piece) ==
    [r \in 1..TOTAL_ROWS |-> [c \in 1..COLS |->
        IF <<(r - 1) - piece.y, (c - 1) - piece.x>> \in getMatrix(piece.type, piece.rotation)
        THEN piece.type
        ELSE b[r][c]]]

toppedOut(piece) ==
    \E cell \in getMatrix(piece.type, piece.rotation) : piece.y + cell[1] < 0

\* Faulty variant of lockPiece: a piece locked with a cell above row 0 still
\* goes through line clearing and scoring before the game ends.
lockPiece_scoresAtTop(g, draws) ==
    IF ~HasActive(g) THEN g
    ELSE LET g1 == [g EXCEPT !.board = stamp(g.board, g.active)]
             res == clearLines(g1.board)
             g2 == handleLineScoring([g1 EXCEPT !.board = res.board,
                                                !.locks = Append(g.locks, res.cleared)],
                                     res.cleared)
             g3 == [g2 EXCEPT !.active = NoPiece,
                              !.grounded = FALSE,
                              !.lockTimer = 0,
                              !.softDropActive = FALSE,
                              !.gravityTimer = 0]
         IN IF toppedOut(g.active) THEN endGame(g2)
            ELSE IF g3.state = "playing" THEN spawnNextPiece(g3, draws) ELSE g3

lockPiece(g, draws) ==
    IF ~HasActive(g) THEN g
    ELSE LET g1 == [g EXCEPT !.board = stamp(g.board, g.active)]
         IN IF toppedOut(g.active) THEN endGame([g1 EXCEPT !.locks = Append(g.locks, 0)])
            ELSE LET res == clearLines(g1.board)
                     g2 == handleLineScoring([g1 EXCEPT !.board = res.board,
                                                        !.locks = Append(g.locks, res.cleared)],
                                             res.cleared)
                     g3 == [g2 EXCEPT !.active = NoPiece,
                                      !.grounded = FALSE,
                                      !.lockTimer = 0,
                                      !.softDropActive = FALSE,
                                      !.gravityTimer = 0]
                 IN IF g3.state = "playing" THEN spawnNextPiece(g3, draws) ELSE g3

\* Faulty variant of tryMove: the grounded flag is left as it was after a
\* successful step.
tryMove_staleGrounded(g, dx, dy) ==
    IF ~HasActive(g) THEN [g |-> g, moved |-> FALSE]
    ELSE LET newX == g.active.x + dx
             newY == g.active.y + dy
         IN IF collides(g.board, g.active.type, newX, newY, g.active.rotation)
            THEN [g |-> IF dy > 0 THEN [g EXCEPT !.grounded = TRUE] ELSE g,
                  moved |-> FALSE]
            ELSE [g |-> [g EXCEPT !.active.x = newX, !.active.y = newY,
                                  !.lockTimer = 0],
                  moved |-> TRUE]

\* Faulty variant of tryMove: a step to the side is not tested.
tryMove_sideways(g, dx, dy) ==
    IF ~HasActive(g) THEN [g |-> g, moved |-> FALSE]
    ELSE LET newX == g.active.x + dx
             newY == g.active.y + dy
         IN IF dy > 0 /\ collides(g.board, g.active.type, newX, newY, g.active.rotation)
            THEN [g |-> [g EXCEPT !.grounded = TRUE], moved |-> FALSE]
            ELSE LET g1 == [g EXCEPT !.active.x = newX, !.active.y = newY,
                                     !.lockTimer = 0]
                 IN [g |-> [g1 EXCEPT !.grounded = checkGrounded(g1)], moved |-> TRUE]

\* Faulty variant of tryMove: a successful move leaves the lock timer running.
tryMove_keepsLockTimer(g, dx, dy) ==
    IF ~HasActive(g) THEN [g |-> g, moved |-> FALSE]
    ELSE LET newX == g.active.x + dx
             newY == g.active.y + dy
         IN IF collides(g.board, g.active.type, newX, newY, g.active.rotation)
            THEN [g |-> IF dy > 0 THEN [g EXCEPT !.grounded = TRUE] ELSE g,
                  moved |-> FALSE]
            ELSE LET g1 == [g EXCEPT !.active.x = newX, !.active.y = newY]
                 IN [g |-> [g1 EXCEPT !.grounded = checkGrounded(g1)], moved |-> TRUE]

\* tryMove returns the object after the call and the boolean result.
tryMove(g, dx, dy) ==
    IF ~HasActive(g) THEN [g |-> g, moved |-> FALSE]
    ELSE LET newX == g.active.x + dx
             newY == g.active.y + dy
         IN IF collides(g.board, g.active.type, newX, newY, g.active.rotation)
            THEN [g |-> IF dy > 0 THEN [g EXCEPT !.grounded = TRUE] ELSE g,
                  moved |-> FALSE]
            ELSE LET g1 == [g EXCEPT !.active.x = newX, !.active.y = newY,
                                     !.lockTimer = 0]
                 IN [g |-> [g1 EXCEPT !.grounded = checkGrounded(g1)], moved |-> TRUE]

RECURSIVE dropFrom(_, _)
dropFrom(g, distance) ==
    IF collides(g.board, g.active.type, g.active.x, g.active.y + distance + 1,
                g.active.rotation)
    THEN distance
    ELSE dropFrom(g, distance + 1)

getDropDistance(g) == IF ~HasActive(g) THEN 0 ELSE dropFrom(g, 0)

----------------------------------------------------------------------------
(* Public commands, as operators on the object *)

\* The assignments of reset, before it refills the queue and spawns.
resetFields(g) ==
    [g EXCEPT !.board = createBoard,
              !.queue = <<>>,
              !.active = NoPiece,
              !.holdPiece = NULL,
              !.canHold = TRUE,
              !.gravityTimer = 0,
              !.gravityInterval = 1000,
              !.lockTimer = 0,
              !.grounded = FALSE,
              !.softDropActive = FALSE,
              !.state = "playing",
              !.score = 0,
              !.level = 1,
              !.lines = 0,
              !.combo = -1,
              !.backToBack = 0,
              !.dequeued = <<>>,
              !.locks = <<>>]

\* Faulty variant of reset: the old queue is kept.
reset_keepsQueue(g, draws) ==
    spawnNextPiece(refillQueue([resetFields(g) EXCEPT !.queue = g.queue], draws), draws)

reset(g, draws) == spawnNextPiece(refillQueue(resetFields(g), draws), draws)

\* Faulty variant of the while loop of update: the interval is taken off
\* the timer only after a step that moved the piece.
RECURSIVE gravityLoop_paysOnSuccess(_, _)
gravityLoop_paysOnSuccess(g, interval) ==
    IF g.gravityTimer >= interval /\ HasActive(g)
    THEN LET res == tryMove(g, 0, 1)
             g1 == [res.g EXCEPT !.gravityTimer = res.g.gravityTimer - interval]
         IN IF res.moved
            THEN gravityLoop_paysOnSuccess(IF g1.softDropActive
                                           THEN [g1 EXCEPT !.score = g1.score + 1]
                                           ELSE g1,
                                           interval)
            ELSE [res.g EXCEPT !.grounded = TRUE]
    ELSE g

\* The while loop of update: one iteration per call of gravityLoop.
RECURSIVE gravityLoop(_, _)
gravityLoop(g, interval) ==
    IF g.gravityTimer >= interval /\ HasActive(g)
    THEN LET g1 == [g EXCEPT !.gravityTimer = g.gravityTimer - interval]
             res == tryMove(g1, 0, 1)
         IN IF res.moved
            THEN gravityLoop(IF res.g.softDropActive
                             THEN [res.g EXCEPT !.score = res.g.score + 1]
                             ELSE res.g,
                             interval)
            ELSE [res.g EXCEPT !.grounded = TRUE]
    ELSE g

\* Faulty variant of update: the piece is locked only when the lock timer
\* has passed the lock delay, not when it has reached it.
updatePlaying_pastDelay(g, delta, draws) ==
         LET interval == IF g.softDropActive THEN SOFT_DROP_INTERVAL
                         ELSE g.gravityInterval
             g1 == gravityLoop([g EXCEPT !.gravityTimer = g.gravityTimer + delta],
                               interval)
         IN IF g1.grounded /\ HasActive(g1)
            THEN LET g2 == [g1 EXCEPT !.lockTimer = g1.lockTimer + delta]
                 IN IF g2.lockTimer > LOCK_DELAY_MS THEN lockPiece(g2, draws) ELSE g2
            ELSE g1

\* update past its first test.
updatePlaying(g, delta, draws) ==
         LET interval == IF g.softDropActive THEN SOFT_DROP_INTERVAL
                         ELSE g.gravityInterval
             g1 == gravityLoop([g EXCEPT !.gravityTimer = g.gravityTimer + delta],
                               interval)
         IN IF g1.grounded /\ HasActive(g1)
            THEN LET g2 == [g1 EXCEPT !.lockTimer = g1.lockTimer + delta]
                 IN IF g2.lockTimer >= LOCK_DELAY_MS THEN lockPiece(g2, draws) ELSE g2
            ELSE g1

\* Faulty variant of update: the phase is not looked at.
update_anyPhase(g, delta, draws) ==
    IF ~HasActive(g) THEN g ELSE updatePlaying(g, delta, draws)

update(g, delta, draws) ==
    IF g.state # "playing" \/ ~HasActive(g) THEN g
    ELSE updatePlaying(g, delta, draws)

move(g, direction) ==
    IF g.state # "playing" THEN g
    ELSE LET res == tryMove(g, direction, 0)
         IN IF res.moved THEN [res.g EXCEPT !.grounded = checkGrounded(res.g)]
            ELSE res.g

\* Faulty variant of the kick loop: only the offset at index n is tried.
tryKicks_firstOnly(g, kicks, n, toRotation) ==
    IF n > Len(kicks) THEN g
    ELSE LET newX == g.active.x + kicks[n][1]
             newY == g.active.y + kicks[n][2]
         IN IF ~collides(g.board, g.active.type, newX, newY, toRotation)
            THEN LET g1 == [g EXCEPT !.active.rotation = toRotation,
                                     !.active.x = newX,
                                     !.active.y = newY]
                 IN [g1 EXCEPT !.grounded = checkGrounded(g1), !.lockTimer = 0]
            ELSE g

\* The for loop of rotate over the kick offsets, from index n on.
RECURSIVE tryKicks(_, _, _, _)
tryKicks(g, kicks, n, toRotation) ==
    IF n > Len(kicks) THEN g
    ELSE LET newX == g.active.x + kicks[n][1]
             newY == g.active.y + kicks[n][2]
         IN IF ~collides(g.board, g.active.type, newX, newY, toRotation)
            THEN LET g1 == [g EXCEPT !.active.rotation = toRotation,
                                     !.active.x = newX,
                                     !.active.y = newY]
                 IN [g1 EXCEPT !.grounded = checkGrounded(g1), !.lockTimer = 0]
            ELSE tryKicks(g, kicks, n + 1, toRotation)

rotate(g, clockwise) ==
    IF g.state # "playing" \/ ~HasActive(g) THEN g
    ELSE LET dir == IF clockwise THEN 1 ELSE -1
             fromRotation == ((g.active.rotation % 4) + 4) % 4
             toRotation == (fromRotation + dir + 4) % 4
             kicks == getKickData(g.active.type, fromRotation, toRotation)
         IN tryKicks(g, kicks, 1, toRotation)

\* Faulty variant of hardDrop: a distance of 0 locks the piece where it is.
hardDrop_locksAtZero(g, draws) ==
    IF g.state # "playing" \/ ~HasActive(g) THEN g
    ELSE LET distance == getDropDistance(g)
         IN IF distance < 0 THEN g
            ELSE lockPiece([g EXCEPT !.active.y = g.active.y + distance,
                                     !.score = g.score + distance * 2],
                           draws)

hardDrop(g, draws) ==
    IF g.state # "playing" \/ ~HasActive(g) THEN g
    ELSE LET distance == getDropDistance(g)
         IN IF distance <= 0 THEN g
            ELSE lockPiece([g EXCEPT !.active.y = g.active.y + distance,
                                     !.score = g.score + distance * 2],
                           draws)

\* Faulty variant of tapSoftDrop: a tap that cannot descend locks the piece.
tapSoftDrop_locks(g) ==
    IF g.state # "playing" THEN g
    ELSE LET res == tryMove(g, 0, 1)
         IN IF res.moved THEN [res.g EXCEPT !.score = res.g.score + 1]
            ELSE lockPiece([res.g EXCEPT !.grounded = TRUE], ZeroDraws)

tapSoftDrop(g) ==
    IF g.state # "playing" THEN g
    ELSE LET res == tryMove(g, 0, 1)
         IN IF res.moved THEN [res.g EXCEPT !.score = res.g.score + 1]
            ELSE [res.g EXCEPT !.grounded = TRUE]

setSoftDrop(g, on) ==
    IF g.softDropActive = on THEN g
    ELSE [g EXCEPT !.softDropActive = on,
                   !.gravityTimer = IF on THEN 0 ELSE g.gravityTimer]

\* Faulty variant of hold: a swap leaves hold enabled.
hold_swapKeepsCanHold(g, draws) ==
    IF g.state # "playing" \/ ~HasActive(g) \/ ~g.canHold THEN g
    ELSE LET currentType == g.active.type
             swappedType == g.holdPiece
             g1 == [g EXCEPT !.holdPiece = currentType]
         IN IF swappedType # NULL
            THEN LET g2 == [g1 EXCEPT !.active = createPiece(swappedType)]
                 IN IF collides(g2.board, g2.active.type, g2.active.x, g2.active.y,
                                g2.active.rotation)
                    THEN endGame(g2)
                    ELSE [g2 EXCEPT !.grounded = checkGrounded(g2),
                                    !.lockTimer = 0,
                                    !.softDropActive = FALSE,
                                    !.gravityTimer = 0]
            ELSE spawnNextPiece([g1 EXCEPT !.active = NoPiece, !.canHold = FALSE], draws)

hold(g, draws) ==
    IF g.state # "playing" \/ ~HasActive(g) \/ ~g.canHold THEN g
    ELSE LET currentType == g.active.type
             swappedType == g.holdPiece
             g1 == [g EXCEPT !.holdPiece = currentType, !.canHold = FALSE]
         IN IF swappedType # NULL
            THEN LET g2 == [g1 EXCEPT !.active = createPiece(swappedType)]
                 IN IF collides(g2.board, g2.active.type, g2.active.x, g2.active.y,
                                g2.active.rotation)
                    THEN endGame(g2)
                    ELSE [g2 EXCEPT !.grounded = checkGrounded(g2),
                                    !.lockTimer = 0,
                                    !.softDropActive = FALSE,
                                    !.gravityTimer = 0]
            ELSE spawnNextPiece([g1 EXCEPT !.active = NoPiece], draws)

togglePause(g) ==
    IF g.state = "playing"
    THEN [g EXCEPT !.state = "paused", !.softDropActive = FALSE]
    ELSE IF g.state = "paused" THEN [g EXCEPT !.state = "playing"]
    ELSE g

\* The positions of a 4 x 4 matrix in the order the two for loops visit them.
MatrixOrder == [i \in 1..16 |-> <<(i - 1) \div 4, (i - 1) % 4>>]

getCellsFor(type, rotation, baseX, baseY) ==
    LET matrix == getMatrix(type, rotation)
        filled == SelectSeq(MatrixOrder, LAMBDA p : p \in matrix)
    IN [i \in 1..Len(filled) |->
           [x |-> baseX + filled[i][2], y |-> baseY + filled[i][1], type |-> type]]

getActiveCells(g) ==
    IF ~HasActive(g) THEN <<>>
    ELSE getCellsFor(g.active.type, g.active.rotation, g.active.x, g.active.y)

getGhostCells(g) ==
    IF ~HasActive(g) THEN <<>>
    ELSE getCellsFor(g.active.type, g.active.rotation, g.active.x,
                     g.active.y + getDropDistance(g))

----------------------------------------------------------------------------
(* The environment: which commands the callers issue.                      *)
(*                                                                         *)
(* A command is [op, arg, draws]: arg is update's delta, move's direction, *)
(* 1/0 for rotate's and setSoftDrop's boolean; draws are the values        *)
(* Math.random() returns if the command refills the queue.  A run replays  *)
(* a prefix of one of the Scripts from the constructed game and then       *)
(* issues up to MaxFree commands drawn from FreeCmds; open are the         *)
(* positions of a scenario at which the run may leave it.                  *)

MaxFree == 2

Cmd(op, arg, draws) == [op |-> op, arg |-> arg, draws |-> draws]

Run(js) == [n \in 1..6 |-> (js[n] * RandomScale) \div (8 - n)]  \* the draws giving indexes js

IdentityRun == [n \in 1..6 |-> RandomScale - 1]   \* bag I O T S Z J L
ZeroRun == [n \in 1..6 |-> 0]                     \* bag O T S Z J L I

RandomRuns == {IdentityRun, ZeroRun}

UpdateDeltas == {250, 1000, 25000}

FreeCmds ==
    {Cmd("reset", 0, d) : d \in RandomRuns}
    \cup {Cmd("update", delta, d) : delta \in UpdateDeltas, d \in RandomRuns}
    \cup {Cmd("move", dir, ZeroRun) : dir \in {-1, 1}}
    \cup {Cmd("rotate", cw, ZeroRun) : cw \in {0, 1}}
    \cup {Cmd("hardDrop", 0, d) : d \in RandomRuns}
    \cup {Cmd("tapSoftDrop", 0, ZeroRun)}
    \cup {Cmd("setSoftDrop", on, ZeroRun) : on \in {0, 1}}
    \cup {Cmd("hold", 0, d) : d \in RandomRuns}
    \cup {Cmd("togglePause", 0, ZeroRun)}

Drop == Cmd("hardDrop", 0, IdentityRun)
Left == Cmd("move", -1, ZeroRun)
Right == Cmd("move", 1, ZeroRun)
Cw == Cmd("rotate", 1, ZeroRun)
Ccw == Cmd("rotate", 0, ZeroRun)
Tap == Cmd("tapSoftDrop", 0, ZeroRun)
Swap == Cmd("hold", 0, IdentityRun)

Rep(c, n) == [i \in 1..n |-> c]

\* Stacking to the ceiling.  Bags I O T S Z J L, then O T S L I J Z.  Two
\* drops, T goes to the hold slot, eight more drops leave the stack's top
\* in row 3 with I active; I and J dropped leave a cell in row 0, Z spawns
\* resting on the stack, and swapping T in collides at its spawn position.
ToTheTop ==
    [init |-> IdentityRun,
     open |-> Nat,
     cmds |-> <<Cmd("hardDrop", 0, Run(<<4, 5, 0, 0, 0, 0>>)), Drop, Swap>>
              \o Rep(Drop, 8) \o <<Drop, Drop, Swap>>]

\* One full row.  Bag I J L S Z O T: I to the left wall, J beside it, L to
\* the right wall; the last drop fills row 21.
OneLine ==
    [init |-> Run(<<2, 1, 4, 3, 2, 1>>),
     open |-> Nat,
     cmds |-> <<Left, Left, Left, Drop, Right, Drop, Right, Right, Right, Right, Drop>>]

\* A well one cell wide.  The first I stands in column 8, six pieces go
\* down the middle, the second I is turned, moved to column 9, lowered by
\* gravity and a tap to the floor, and rests there for 250 ms.
TheWell ==
    [init |-> IdentityRun,
     open |-> Nat,
     cmds |-> <<Cw, Right, Right, Right, Drop>> \o Rep(Drop, 6)
              \o <<Cw, Right, Right, Right, Right,
                   Cmd("update", 19000, IdentityRun), Tap,
                   Cmd("update", 250, IdentityRun)>>]

\* A piece put down: turned, moved sideways from its spawn column, dropped.
Put(turns, dx, draws) ==
    (IF turns = 3 THEN <<Ccw>> ELSE Rep(Cw, turns))
    \o Rep(IF dx < 0 THEN Left ELSE Right, IF dx < 0 THEN -dx ELSE dx)
    \o <<Cmd("hardDrop", 0, draws)>>

\* Ten rows and more.  Twenty pieces fill columns 0..8 eight rows high and
\* leave column 9 free; the I closing the third bag and the I opening the
\* fourth go down column 9 and clear four rows each, and the T after them
\* clears one.  Later an I clears the tenth row, and at level 2 an O clears
\* two rows and the I after it three.  The run may leave the scenario at
\* the clearing drops and right after them.
Tetrises ==
    [init |-> Run(<<3, 5, 4, 0, 1, 0>>),
     open |-> {78, 79, 84, 85, 89, 90, 125, 126, 151, 152, 158},
     cmds |->
                 Put(0, -3, Run(<<6, 5, 3, 1, 1, 1>>))        \* T
              \o Put(0, 0, ZeroRun)                           \* L
              \o Put(0, 2, ZeroRun)                           \* O
              \o Put(1, 3, ZeroRun)                           \* I
              \o Put(1, -4, ZeroRun)                          \* Z
              \o Put(0, -1, ZeroRun)                          \* J
              \o Put(1, -2, ZeroRun)                          \* S
              \o Put(0, 1, Run(<<0, 2, 4, 1, 2, 1>>))         \* I
              \o Put(1, -4, ZeroRun)                          \* T
              \o Put(0, 0, ZeroRun)                           \* Z
              \o Put(0, 2, ZeroRun)                           \* O
              \o Put(1, 0, ZeroRun)                           \* S
              \o Put(2, 3, ZeroRun)                           \* J
              \o Put(0, -2, ZeroRun)                          \* L
              \o Put(1, -4, Run(<<4, 5, 4, 3, 1, 1>>))        \* L
              \o Put(1, -3, ZeroRun)                          \* S
              \o Put(3, 2, ZeroRun)                           \* J
              \o Put(0, 3, ZeroRun)                           \* O
              \o Put(0, -1, ZeroRun)                          \* Z
              \o Put(3, 1, ZeroRun)                           \* T
              \o Put(1, 4, ZeroRun)                           \* I, clears 4
              \o Put(1, 4, Run(<<3, 4, 2, 2, 0, 0>>))         \* I, clears 4
              \o Put(0, 4, ZeroRun)                           \* T, clears 1
              \o Put(0, 2, ZeroRun)                           \* O
              \o Put(1, 4, ZeroRun)                           \* S
              \o Put(2, 2, ZeroRun)                           \* L
              \o Put(2, 4, ZeroRun)                           \* J
              \o Put(1, 2, ZeroRun)                           \* Z
              \o Put(0, 4, Run(<<4, 3, 2, 0, 1, 0>>))         \* O
              \o Put(0, -1, ZeroRun)                          \* L
              \o Put(0, -3, ZeroRun)                          \* I, clears 1
              \o Put(1, 1, ZeroRun)                           \* J
              \o Put(1, -3, ZeroRun)                          \* T
              \o Put(0, -1, ZeroRun)                          \* Z
              \o Put(1, -1, ZeroRun)                          \* S
              \o Put(2, 1, ZeroRun)                           \* L
              \o Put(1, -2, ZeroRun)                          \* J
              \o Put(0, -4, ZeroRun)                          \* O, clears 2
              \o Put(1, -5, ZeroRun)                          \* I, clears 3
    ]

SoftOn == Cmd("setSoftDrop", 1, ZeroRun)
Pause == Cmd("togglePause", 0, ZeroRun)
Tick == Cmd("update", 250, IdentityRun)

\* Soft drop, pause and restart.  With soft drop on, five updates of 250 ms
\* take the first I from its spawn row to the floor; the fifth makes two
\* steps and a failing third.  The I is moved left and rests for 250 ms,
\* the game is paused over one update and resumed, the next update locks
\* the I, gravity lowers the O by one row, and the game is restarted.
SoftAndPause ==
    [init |-> IdentityRun,
     open |-> {2, 6, 7, 9, 12, 13, 15},
     cmds |-> <<SoftOn>> \o Rep(Tick, 5) \o <<Left, Tick, Pause, Tick, Pause, Tick,
                Cmd("update", 1000, IdentityRun), Cmd("reset", 0, ZeroRun)>>]

\* Two full rows with a row between them.  Bags I T Z L O S J, then J I O
\* T S Z L.  Seven pieces fill rows 21 and 19 up to column 0 and leave
\* columns 1 and 9 of row 20 empty; the upright J dropped at the left wall
\* fills column 0 of rows 19..21 and clears rows 19 and 21.
TwoApart ==
    [init |-> Run(<<5, 3, 1, 3, 1, 1>>),
     open |-> {33, 34},
     cmds |->
                 Put(0, -2, Run(<<6, 4, 3, 2, 1, 0>>))        \* I
              \o Put(0, 4, ZeroRun)                           \* T
              \o Put(0, 1, ZeroRun)                           \* Z
              \o Put(2, 4, ZeroRun)                           \* L
              \o Put(0, -2, ZeroRun)                          \* O
              \o Put(1, 1, ZeroRun)                           \* S
              \o Put(2, -1, ZeroRun)                          \* J
              \o Put(1, -4, ZeroRun)                          \* J, clears 2
    ]

\* A cleared row, then the end.  Bags T J I L Z S O, then L S O I T Z J.
\* T, J and L fill row 21 up to column 9 and seven pieces build a tower on
\* columns 3..5 up to row 0; the second I goes down column 9 and clears
\* row 21, the T after it spawns resting on the tower and is locked by
\* the lock delay with a cell above row 0.
ClearThenTop ==
    [init |-> Run(<<1, 3, 4, 1, 0, 1>>),
     open |-> {30, 31, 32},
     cmds |->
                 Put(0, 0, Run(<<5, 4, 2, 0, 1, 0>>))         \* T
              \o Put(0, -3, ZeroRun)                          \* J
              \o Put(1, -1, ZeroRun)                          \* I
              \o Put(0, 3, ZeroRun)                           \* L
              \o Put(1, 0, ZeroRun)                           \* Z
              \o Put(1, 0, ZeroRun)                           \* S
              \o Put(0, 0, ZeroRun)                           \* O
              \o Put(1, 0, ZeroRun)                           \* L
              \o Put(1, -1, ZeroRun)                          \* S
              \o Put(0, -1, ZeroRun)                          \* O
              \o Put(1, 4, ZeroRun)                           \* I, clears 1
              \o <<Cmd("update", 1000, ZeroRun)>>             \* T, ends the game
    ]

Frame == Cmd("update", 200, IdentityRun)

\* Resting pieces.  Gravity lowers the first I to one row above the floor,
\* a tap puts it on the floor, it rests over two updates of 200 ms, is
\* moved left, rests again and is locked by the third update after the
\* move.  Gravity lowers the O to one row above the I; the fifth update of
\* 200 ms steps it onto the I and the second update after that locks it.
LockDelay ==
    [init |-> IdentityRun,
     open |-> {5, 6, 15, 16},
     cmds |-> <<Cmd("update", 21000, IdentityRun), Tap, Frame, Frame, Left,
                Frame, Frame, Frame, Cmd("update", 19000, IdentityRun)>>
              \o Rep(Frame, 7)]

\* A full row at the top.  Bags T L O I Z J S, I T Z O S J L, O Z T J L I S,
\* T J I L Z S O, I Z T O J S L, I T S O J L Z, then O J T I.  Forty-five
\* pieces fill columns 0..8 up to row 2 with no row cleared, a Z covers
\* column 9 at row 3; the last I, upright in column 9, comes to rest on it
\* in rows -1..2: row 2 is full and a cell is above row 0.
FullAtTop ==
    [init |-> Run(<<3, 5, 4, 0, 1, 0>>),
     open |-> {179, 180},
     cmds |->
                 Put(0, -3, Run(<<6, 5, 3, 1, 1, 1>>))        \* T
              \o Put(0, 0, ZeroRun)                           \* L
              \o Put(0, 2, ZeroRun)                           \* O
              \o Put(1, 3, ZeroRun)                           \* I
              \o Put(1, -4, ZeroRun)                          \* Z
              \o Put(0, -1, ZeroRun)                          \* J
              \o Put(1, -2, ZeroRun)                          \* S
              \o Put(0, 1, Run(<<3, 0, 3, 0, 2, 0>>))         \* I
              \o Put(1, -4, ZeroRun)                          \* T
              \o Put(0, 0, ZeroRun)                           \* Z
              \o Put(0, 2, ZeroRun)                           \* O
              \o Put(1, 0, ZeroRun)                           \* S
              \o Put(2, 3, ZeroRun)                           \* J
              \o Put(0, -2, ZeroRun)                          \* L
              \o Put(0, -4, Run(<<1, 3, 4, 1, 0, 1>>))        \* O
              \o Put(1, -2, ZeroRun)                          \* Z
              \o Put(3, 1, ZeroRun)                           \* T
              \o Put(0, 3, ZeroRun)                           \* J
              \o Put(1, 3, ZeroRun)                           \* L
              \o Put(1, -5, ZeroRun)                          \* I
              \o Put(0, -2, ZeroRun)                          \* S
              \o Put(1, 0, Run(<<6, 3, 3, 1, 2, 1>>))         \* T
              \o Put(1, 2, ZeroRun)                           \* J
              \o Put(1, 3, ZeroRun)                           \* I
              \o Put(2, -2, ZeroRun)                          \* L
              \o Put(1, 1, ZeroRun)                           \* Z
              \o Put(1, -4, ZeroRun)                          \* S
              \o Put(0, -2, ZeroRun)                          \* O
              \o Put(1, -1, Run(<<4, 4, 4, 1, 1, 1>>))        \* I
              \o Put(1, 3, ZeroRun)                           \* Z
              \o Put(1, 1, ZeroRun)                           \* T
              \o Put(0, -3, ZeroRun)                          \* O
              \o Put(1, -1, ZeroRun)                          \* J
              \o Put(1, 2, ZeroRun)                           \* S
              \o Put(2, -3, ZeroRun)                          \* L
              \o Put(1, 3, Run(<<6, 4, 3, 0, 2, 0>>))         \* I
              \o Put(3, 1, ZeroRun)                           \* T
              \o Put(1, 2, ZeroRun)                           \* S
              \o Put(0, -4, ZeroRun)                          \* O
              \o Put(3, -1, ZeroRun)                          \* J
              \o Put(3, 0, ZeroRun)                           \* L
              \o Put(0, 4, ZeroRun)                           \* Z
              \o Put(0, 1, ZeroRun)                           \* O
              \o Put(2, -3, ZeroRun)                          \* J
              \o Put(0, -3, ZeroRun)                          \* T
              \o Put(1, 4, ZeroRun)                           \* I, fills a row above the top
    ]

Scripts ==
    <<ToTheTop, OneLine, TheWell, Tetrises, SoftAndPause, TwoApart, ClearThenTop,
      LockDelay, FullAtTop>>

Scripted == script # 0 /\ pc <= Len(Scripts[script].cmds)

Candidates(op) ==
    {c \in FreeCmds : c.op = op}
    \cup (IF Scripted /\ Scripts[script].cmds[pc].op = op
          THEN {Scripts[script].cmds[pc]} ELSE {})

Issue(c) ==
    /\ trail' = Append(trail, [op |-> c.op, arg |-> c.arg])
    /\ prev' = Engine
    /\ IF Scripted /\ c = Scripts[script].cmds[pc]
       THEN pc' = pc + 1 /\ UNCHANGED <<script, free>>
       ELSE /\ free > 0
            /\ Scripted => pc \in Scripts[script].open
            /\ free' = free - 1 /\ script' = 0 /\ pc' = 0

\* The time the piece of g, the object after command c, has rested: the
\* deltas of the update calls in phase playing that began with this piece
\* grounded where it is now; 0 for a piece that is not grounded or that the
\* command moved, turned or put into play.
Rested(g, c) ==
    IF ~HasActive(g) \/ ~g.grounded THEN 0
    ELSE IF c.op = "reset" \/ g.active # active \/ g.dequeued # dequeued
               \/ g.holdPiece # holdPiece
         THEN 0
    ELSE IF c.op = "update" /\ state = "playing" /\ grounded THEN rested + c.arg
    ELSE rested

Apply(g) ==
    /\ board' = g.board
    /\ queue' = g.queue
    /\ active' = g.active
    /\ holdPiece' = g.holdPiece
    /\ canHold' = g.canHold
    /\ gravityTimer' = g.gravityTimer
    /\ gravityInterval' = g.gravityInterval
    /\ lockTimer' = g.lockTimer
    /\ grounded' = g.grounded
    /\ softDropActive' = g.softDropActive
    /\ state' = g.state
    /\ score' = g.score
    /\ level' = g.level
    /\ lines' = g.lines
    /\ combo' = g.combo
    /\ backToBack' = g.backToBack
    /\ dequeued' = g.dequeued
    /\ locks' = g.locks
    /\ rested' = Rested(g, trail'[Len(trail')])

\* The field initialisers of the class (tetris.ts:53-83); the constructor
\* then calls reset().
Fields ==
    [board |-> createBoard, queue |-> <<>>, active |-> NoPiece, holdPiece |-> NULL,
     canHold |-> TRUE, gravityTimer |-> 0, gravityInterval |-> 1000, lockTimer |-> 0,
     grounded |-> FALSE, softDropActive |-> FALSE, state |-> "playing", score |-> 0,
     level |-> 1, lines |-> 0, combo |-> -1, backToBack |-> 0, dequeued |-> <<>>,
     locks |-> <<>>]

Constructed(draws) == reset(Fields, draws)

\* The constructed game at the start of a run that may issue budget free
\* commands.
Start(budget) ==
    /\ script \in 0..Len(Scripts)
    /\ pc = IF script = 0 THEN 0 ELSE 1
    /\ free = budget
    /\ trail = <<>>
    /\ prev = Fields
    /\ rested = 0
    /\ \E draws \in (IF script = 0 THEN RandomRuns ELSE {Scripts[script].init}) :
         LET g == Constructed(draws)
         IN /\ board = g.board
            /\ queue = g.queue
            /\ active = g.active
            /\ holdPiece = g.holdPiece
            /\ canHold = g.canHold
            /\ gravityTimer = g.gravityTimer
            /\ gravityInterval = g.gravityInterval
            /\ lockTimer = g.lockTimer
            /\ grounded = g.grounded
            /\ softDropActive = g.softDropActive
            /\ state = g.state
            /\ score = g.score
            /\ level = g.level
            /\ lines = g.lines
            /\ combo = g.combo
            /\ backToBack = g.backToBack
            /\ dequeued = g.dequeued
            /\ locks = g.locks

Init == Start(MaxFree)

Reset ==
    \E c \in Candidates("reset") : Issue(c) /\ Apply(reset(Engine, c.draws))

Update ==
    \E c \in Candidates("update") : Issue(c) /\ Apply(update(Engine, c.arg, c.draws))

Move ==
    \E c \in Candidates("move") : Issue(c) /\ Apply(move(Engine, c.arg))

Rotate ==
    \E c \in Candidates("rotate") : Issue(c) /\ Apply(rotate(Engine, c.arg = 1))

HardDrop ==
    \E c \in Candidates("hardDrop") : Issue(c) /\ Apply(hardDrop(Engine, c.draws))

TapSoftDrop ==
    \E c \in Candidates("tapSoftDrop") : Issue(c) /\ Apply(tapSoftDrop(Engine))

SetSoftDrop ==
    \E c \in Candidates("setSoftDrop") : Issue(c) /\ Apply(setSoftDrop(Engine, c.arg = 1))

Hold ==
    \E c \in Candidates("hold") : Issue(c) /\ Apply(hold(Engine, c.draws))

TogglePause ==
    \E c \in Candidates("togglePause") : Issue(c) /\ Apply(togglePause(Engine))

Next ==
    \/ Reset
    \/ Update
    \/ Move
    \/ Rotate
    \/ HardDrop
    \/ TapSoftDrop
    \/ SetSoftDrop
    \/ Hold
    \/ TogglePause

Spec == Init /\ [][Next]_vars

\* The scenarios alone, replayed to their ends without free commands.
ReplayInit == Start(0)

Replay == ReplayInit /\ [][Next]_vars

----------------------------------------------------------------------------
(* Properties.  A property that speaks of a command compares the object    *)
(* before it (prev) with the object after it (the variables); last is the  *)
(* command.                                                                *)

SpawnCollides(b, type) ==
    collides(b, type, SPAWN_POSITIONS[type].x, SPAWN_POSITIONS[type].y, 0)

\* The type taken off the queue by the last command, if it took one.
Dequeues == Len(dequeued) = Len(prev.dequeued) + 1
NewType == dequeued[Len(dequeued)]

\* Some cell of the piece lies above row 0.
AboveTop(piece) ==
    \E cell \in TETROMINO_SHAPES[piece.type][piece.rotation + 1] : piece.y + cell[1] < 0

\* The object apart from the fields listed in the set.
Others(g, fields) == [f \in (DOMAIN g) \ fields |-> g[f]]

\* C1: once the phase is over, every command other than reset leaves the
\* whole engine state unchanged, and the phase stays over until reset.
C1_OverIsTerminal ==
    (prev.state = "over" /\ last.op \notin {"new", "reset"}) => Engine = prev

\* C2: in phase playing with an empty hold slot, hold() stores the active
\* piece's type in the hold slot and makes the front of the queue the new
\* active piece; a second hold() issued right after a hold() is a no-op:
\* active piece, hold slot and queue are unchanged.
C2_SecondHoldIsNoOp ==
    /\ (last.op = "hold" /\ prev.state = "playing" /\ HasActive(prev)
            /\ prev.holdPiece = NULL)
         => /\ holdPiece = prev.active.type
            /\ state = "playing" => active = createPiece(Head(prev.queue))
    /\ (Len(trail) >= 2 /\ last.op = "hold" /\ trail[Len(trail) - 1].op = "hold"
            /\ prev.state = "playing")
         => /\ active = prev.active
            /\ holdPiece = prev.holdPiece
            /\ queue = prev.queue

\* C3: the types taken off the queue since the last reset, cut into
\* consecutive groups of 7, have every complete group equal to a permutation
\* of the 7 piece types.
C3_BagInvariant ==
    \A k \in 0..((Len(dequeued) \div 7) - 1) :
        /\ {dequeued[7 * k + i] : i \in 1..7} = PieceTypeSet
        /\ \A i, j \in 1..7 : i # j => dequeued[7 * k + i] # dequeued[7 * k + j]

\* Two complete groups have been taken, the second in another order than
\* the catalog's.
C3_Witness ==
    /\ Len(dequeued) >= 14
    /\ \E i \in 1..7 : dequeued[7 + i] # PIECE_TYPES[i]

\* C4 as stated: the score is a non-negative integer and no command of the
\* input interface, reset included, lowers it.
C4_ScoreNeverDecreases ==
    /\ score \in Nat
    /\ last.op # "new" => score >= prev.score

\* C4 as amended: the score is a non-negative integer, no command other
\* than reset lowers it, and reset sets it to 0.
C4_ScoreMonotoneUntilReset ==
    /\ score \in Nat
    /\ last.op \notin {"new", "reset"} => score >= prev.score
    /\ last.op = "reset" => score = 0

\* A drop that cleared a row raised the score.
C4_Witness ==
    /\ last.op = "hardDrop"
    /\ lines > prev.lines
    /\ score > prev.score

\* C5: the phase becomes over only from playing and only inside update,
\* hardDrop or hold: by a lock that leaves a cell of the piece above row 0
\* (update or hardDrop), or by a spawned or swapped-in piece that collides at
\* its spawn position.  No other command and no paused game ends the game.
C5_OverOnlyByLockOrSpawn ==
    (state = "over" /\ prev.state # "over") =>
        /\ prev.state = "playing"
        /\ HasActive(prev)
        /\ last.op \in {"update", "hardDrop", "hold"}
        /\ \/ /\ last.op \in {"update", "hardDrop"}
              /\ \E y2 \in prev.active.y..TOTAL_ROWS :
                    LET piece == [prev.active EXCEPT !.y = y2]
                    IN AboveTop(piece) /\ board = stamp(prev.board, piece)
           \/ /\ Dequeues
              /\ SpawnCollides(board, NewType)
           \/ /\ last.op = "hold"
              /\ prev.holdPiece # NULL
              /\ board = prev.board
              /\ SpawnCollides(board, prev.holdPiece)

\* The lock delay of a piece resting with a cell above row 0 ran out in
\* update, and the game ended.
C5_Witness ==
    /\ state = "over"
    /\ last.op = "update"
    /\ prev.state = "playing"
    /\ AboveTop(prev.active)
    /\ board # prev.board

\* C6: update is a no-op unless the phase is playing and a piece is active;
\* in phase paused or over it changes no timer, no position, no cell and no
\* score.
C6_UpdateOnlyWhilePlaying ==
    (last.op = "update" /\ (prev.state # "playing" \/ ~HasActive(prev)))
        => Engine = prev

\* update was called on a paused game whose grounded piece would have been
\* locked by the call's delta.
C6_Witness ==
    /\ last.op = "update"
    /\ state = "paused"
    /\ grounded
    /\ lockTimer > 0
    /\ lockTimer + last.arg >= LOCK_DELAY_MS

\* C7: reset from any state yields the initial game: phase playing, empty
\* board, score 0, level 1, lines 0, combo -1, backToBack 0, empty hold slot
\* with hold enabled, timers 0, soft drop off, and an active piece of
\* rotation 0 at its spawn position that, with the 6 queued types, makes up
\* one bag.
C7_ResetRestoresInitial ==
    last.op = "reset" =>
        /\ state = "playing"
        /\ board = [r \in 1..TOTAL_ROWS |-> [c \in 1..COLS |-> NULL]]
        /\ score = 0 /\ level = 1 /\ lines = 0 /\ combo = -1 /\ backToBack = 0
        /\ holdPiece = NULL /\ canHold
        /\ gravityTimer = 0 /\ lockTimer = 0 /\ gravityInterval = 1000
        /\ ~softDropActive
        /\ active.type \in PieceTypeSet
        /\ active.rotation = 0
        /\ active.x = SPAWN_POSITIONS[active.type].x
        /\ active.y = SPAWN_POSITIONS[active.type].y
        /\ Len(queue) = 6
        /\ {active.type} \cup {queue[i] : i \in 1..6} = PieceTypeSet

\* reset was called on a finished game with a score, a held piece and a
\* queue longer than one bag.
C7_Witness ==
    /\ last.op = "reset"
    /\ prev.state = "over"
    /\ prev.score > 0
    /\ prev.holdPiece # NULL
    /\ Len(prev.queue) >= 7

\* The rows the piece of g can descend straight down without colliding.
MaxDescent(g) ==
    CHOOSE d \in 0..(TOTAL_ROWS + 4) :
        /\ collides(g.board, g.active.type, g.active.x, g.active.y + d + 1, g.active.rotation)
        /\ \A k \in 1..d :
              ~collides(g.board, g.active.type, g.active.x, g.active.y + k, g.active.rotation)

\* The score of a lock clearing n rows at level L with the given combo and
\* back-to-back counters before it.
LineClearScore(n, L, cmb, b2b) ==
    IF n = 0 THEN 0
    ELSE LET base == CASE n = 1 -> 100 [] n = 2 -> 300 [] n = 3 -> 500 [] n = 4 -> 800
             lineScore == IF n = 4 /\ b2b > 0 THEN (3 * base * L) \div 2 ELSE base * L
             newCombo == IF cmb = -1 THEN 0 ELSE cmb + 1
         IN lineScore + (IF newCombo > 0 THEN 50 * newCombo * L ELSE 0)

\* hardDrop in phase playing.  With d = 0 nothing changes.  With d > 0 the
\* cells are stamped at y + d and the score grows by 2 * d plus the line-clear
\* score; spawnsAlways says whether a piece is spawned in every such call,
\* or in every such call but the one whose piece lands with a cell above
\* row 0, which ends the game without a spawn.
HardDropEffect(spawnsAlways) ==
    (last.op = "hardDrop" /\ prev.state = "playing" /\ HasActive(prev)) =>
        LET d == MaxDescent(prev)
            landed == [prev.active EXCEPT !.y = prev.active.y + d]
            stamped == stamp(prev.board, landed)
            res == clearLines(stamped)
            out == AboveTop(landed)
        IN IF d = 0 THEN Engine = prev
           ELSE /\ board = (IF out THEN stamped ELSE res.board)
                /\ score = prev.score + 2 * d
                           + (IF out THEN 0
                              ELSE LineClearScore(res.cleared, prev.level, prev.combo,
                                                  prev.backToBack))
                /\ IF spawnsAlways \/ ~out
                   THEN /\ Dequeues
                        /\ NewType = Head(prev.queue)
                   ELSE /\ dequeued = prev.dequeued
                        /\ state = "over"
                        /\ ~HasActive(Engine)
                /\ (~out /\ Dequeues /\ ~SpawnCollides(board, NewType))
                      => state = "playing" /\ active = createPiece(NewType)

\* C8 as stated: a hardDrop with d > 0 always spawns a new piece.
C8_HardDropAlwaysSpawns == HardDropEffect(TRUE)

\* C8 as amended: a hardDrop with d > 0 spawns a new piece unless the piece
\* lands with a cell above row 0; then the cells inside the grid are
\* stamped, the score grows by 2 * d, the phase becomes over and nothing is
\* spawned.
C8_HardDropSpawnsUnlessToppedOut == HardDropEffect(FALSE)

\* A hard drop cleared a row and the game went on with a new piece.
C8_Witness ==
    /\ last.op = "hardDrop"
    /\ prev.state = "playing"
    /\ MaxDescent(prev) > 0
    /\ lines = prev.lines + 1
    /\ state = "playing"
    /\ HasActive(Engine)

\* C9: move in phase playing shifts the piece by one column iff the
\* destination does not collide; then the lock timer is 0 and the grounded
\* flag is the grounded check at the new position, and nothing else changes;
\* otherwise nothing changes at all.
C9_MoveShiftsOrNothing ==
    (last.op = "move" /\ prev.state = "playing" /\ HasActive(prev)) =>
        LET a == prev.active
        IN IF collides(prev.board, a.type, a.x + last.arg, a.y, a.rotation)
           THEN Engine = prev
           ELSE /\ active = [a EXCEPT !.x = a.x + last.arg]
                /\ lockTimer = 0
                /\ grounded = collides(prev.board, a.type, a.x + last.arg, a.y + 1,
                                       a.rotation)
                /\ Others(Engine, {"active", "lockTimer", "grounded"})
                     = Others(prev, {"active", "lockTimer", "grounded"})

\* A grounded piece whose lock timer was running was moved sideways.
C9_Witness ==
    /\ last.op = "move"
    /\ prev.state = "playing"
    /\ prev.lockTimer > 0
    /\ active.x = prev.active.x + last.arg
    /\ lockTimer = 0

\* The indexes of the kick offsets at which the piece of g, turned to
\* rotation to, does not collide.
Fits(g, kicks, to) ==
    {n \in 1..Len(kicks) :
        ~collides(g.board, g.active.type, g.active.x + kicks[n][1],
                  g.active.y + kicks[n][2], to)}

\* C10: rotate in phase playing turns the piece to (rotation +/- 1) mod 4 at
\* the first kick offset, in table order, whose placement does not collide
\* (lock timer 0, grounded flag recomputed, nothing else changed); if every
\* offset collides nothing changes.
C10_RotateTakesFirstFit ==
    (last.op = "rotate" /\ prev.state = "playing" /\ HasActive(prev)) =>
        LET a == prev.active
            to == (a.rotation + (IF last.arg = 1 THEN 1 ELSE -1)) % 4
            kicks == getKickData(a.type, a.rotation, to)
            fits == Fits(prev, kicks, to)
        IN IF fits = {} THEN Engine = prev
           ELSE LET n == CHOOSE m \in fits : \A k \in fits : m <= k
                    x2 == a.x + kicks[n][1]
                    y2 == a.y + kicks[n][2]
                IN /\ active = [type |-> a.type, rotation |-> to, x |-> x2, y |-> y2]
                   /\ lockTimer = 0
                   /\ grounded = collides(prev.board, a.type, x2, y2 + 1, to)
                   /\ Others(Engine, {"active", "lockTimer", "grounded"})
                        = Others(prev, {"active", "lockTimer", "grounded"})

\* A piece was turned although it collides at the identity offset: it sits
\* at a later offset of the table.
C10_Witness ==
    /\ last.op = "rotate"
    /\ prev.state = "playing"
    /\ active.rotation # prev.active.rotation
    /\ collides(prev.board, prev.active.type, prev.active.x, prev.active.y,
                active.rotation)

\* C11: hold with a held type, an active piece and hold enabled puts the
\* active type in the hold slot and leaves the queue alone; the held type
\* becomes the active piece at its spawn position with rotation 0, or, if it
\* collides there, the phase becomes over.  Hold stays disabled until the
\* next spawn, and a hold with hold disabled or without an active piece
\* changes nothing.
C11_HoldSwaps ==
    /\ (last.op = "hold" /\ prev.state = "playing" /\ HasActive(prev) /\ prev.canHold
            /\ prev.holdPiece # NULL)
         => /\ holdPiece = prev.active.type
            /\ queue = prev.queue
            /\ dequeued = prev.dequeued
            /\ ~canHold
            /\ IF SpawnCollides(prev.board, prev.holdPiece)
               THEN state = "over"
               ELSE state = "playing" /\ active = createPiece(prev.holdPiece)
    /\ (last.op = "hold" /\ (~prev.canHold \/ ~HasActive(prev))) => Engine = prev
    /\ (~prev.canHold /\ canHold) => (last.op = "reset" \/ Dequeues)

\* A hold swapped the pieces and the hold called right after it changed
\* nothing.
C11_Witness ==
    /\ Len(trail) >= 2
    /\ last.op = "hold"
    /\ trail[Len(trail) - 1].op = "hold"
    /\ prev.state = "playing"
    /\ prev.holdPiece # NULL
    /\ ~prev.canHold
    /\ Engine = prev

\* The rows of a board without an empty cell.
FullRows(b) == {r \in 1..TOTAL_ROWS : IsFull(b[r])}

\* The last command locked the piece without ending the game: it was
\* hardDrop or update, and the next piece was taken off the queue.
Locked ==
    /\ last.op \in {"hardDrop", "update"}
    /\ prev.state = "playing"
    /\ HasActive(prev)
    /\ Dequeues

\* The piece of the last command, k rows below where the command found it.
LockedAt(k) == [prev.active EXCEPT !.y = prev.active.y + k]

\* The points the descent by k rows gave: 2 per row in hardDrop, 1 per row
\* of gravity in update while soft drop is on.
DescentScore(k) ==
    IF last.op = "hardDrop" THEN 2 * k
    ELSE IF prev.softDropActive THEN k ELSE 0

\* C12: the piece is locked where it can descend no further.  A lock that
\* clears n in 1..4 rows adds n to lines, takes combo from
\* -1 to 0 or else adds 1 to it, and adds to the score base(n) * L, or
\* floor(1.5 * 800 * L) for n = 4 with backToBack > 0 before the lock, plus
\* 50 * combo * L when the new combo is positive, L being the level before
\* the lock.
C12_LineScoring ==
    Locked =>
        \E k \in 0..MaxDescent(prev) :
            LET stamped == stamp(prev.board, LockedAt(k))
                n == Cardinality(FullRows(stamped))
            IN /\ collides(prev.board, prev.active.type, prev.active.x,
                           prev.active.y + k + 1, prev.active.rotation)
               /\ board = clearLines(stamped).board
               /\ n \in 0..4
               /\ n > 0 =>
                    /\ lines = prev.lines + n
                    /\ combo = (IF prev.combo = -1 THEN 0 ELSE prev.combo + 1)
                    /\ score = prev.score + DescentScore(k)
                               + LineClearScore(n, prev.level, prev.combo, prev.backToBack)
                    /\ (n = 1 /\ prev.combo = -1) =>
                          /\ score = prev.score + DescentScore(k) + 100 * prev.level
                          /\ combo = 0

\* A lock cleared three rows at level 2 right after another clearing lock:
\* the rows are worth 1000 and the combo 100.
C12_Witness ==
    /\ Locked
    /\ lines = prev.lines + 3
    /\ prev.level = 2
    /\ prev.combo = 0
    /\ combo = 1
    /\ score - prev.score - DescentScore(MaxDescent(prev)) = 1100

\* The number of 4s the sequence ends with.
TrailingFours(s) ==
    CHOOSE k \in 0..Len(s) :
        /\ \A i \in 1..k : s[Len(s) + 1 - i] = 4
        /\ k = Len(s) \/ s[Len(s) - k] # 4

\* The last command locked a piece.
JustLocked == last.op # "reset" /\ Len(locks) = Len(prev.locks) + 1

\* C13: after any sequence of locks the back-to-back counter is the number
\* of immediately preceding consecutive locks that each cleared 4 rows: a
\* lock clearing 4 rows adds 1, a lock clearing 0 to 3 rows sets it to 0.
\* The second of two consecutive 4-row locks leaves it at 2 and scores
\* 1.5 * 800 * L for its rows.
C13_BackToBackCounts ==
    /\ backToBack = TrailingFours(locks)
    /\ (JustLocked /\ Len(locks) >= 2 /\ locks[Len(locks)] = 4
            /\ locks[Len(locks) - 1] = 4)
         => /\ backToBack >= 2
            /\ TrailingFours(locks) = 2 => backToBack = 2
            /\ score = prev.score + DescentScore(MaxDescent(prev))
                       + (3 * 800 * prev.level) \div 2
                       + 50 * combo * prev.level

\* Two locks in a row cleared 4 rows each.
C13_Witness ==
    /\ JustLocked
    /\ Len(locks) >= 2
    /\ locks[Len(locks)] = 4
    /\ locks[Len(locks) - 1] = 4
    /\ prev.backToBack = 1
    /\ backToBack = 2

\* The sum of a sequence of numbers.
RECURSIVE SumSeq(_)
SumSeq(s) == IF s = <<>> THEN 0 ELSE Head(s) + SumSeq(Tail(s))

\* C14: in every reachable state level = floor(lines / 10) + 1, lines being
\* the number of rows cleared since the last reset; no command but reset
\* lowers level or lines.
C14_LevelFromLines ==
    /\ level = (lines \div 10) + 1
    /\ lines = SumSeq(locks)
    /\ last.op \notin {"new", "reset"} => (lines >= prev.lines /\ level >= prev.level)

\* The lock that cleared the tenth row raised the level to 2.
C14_Witness ==
    /\ JustLocked
    /\ prev.lines = 9
    /\ lines = 10
    /\ prev.level = 1
    /\ level = 2

\* How far beyond the grid, in columns and rows, anchors are probed.
ProbeMargin == 4

\* The placements probed in a state: every type in every rotation at every
\* anchor from ProbeMargin outside the grid's left and top edge to its
\* right and bottom edge.
Probes ==
    {[type |-> t, rotation |-> r, x |-> px, y |-> py] :
        t \in PieceTypeSet, r \in 0..3,
        px \in (-ProbeMargin)..COLS, py \in (-ProbeMargin)..TOTAL_ROWS}

\* The grid positions <<row, col>> of the occupied cells of a placement.
CellsOf(p) ==
    {<<p.y + cell[1], p.x + cell[2]>> : cell \in TETROMINO_SHAPES[p.type][p.rotation + 1]}

\* A position outside the column range or below the last row.
Outside(pos) == pos[2] < 0 \/ pos[2] >= COLS \/ pos[1] >= TOTAL_ROWS

\* A position of the grid holding a settled cell.
Settled(b, pos) ==
    /\ pos[1] \in 0..(TOTAL_ROWS - 1)
    /\ pos[2] \in 0..(COLS - 1)
    /\ b[pos[1] + 1][pos[2] + 1] # NULL

\* C15: collides is true iff some occupied cell of the placement is outside
\* the column range, or below the last row, or on a settled cell of the
\* grid; a placement whose cells are all above row 0 inside the column
\* range does not collide.
C15_CollidesIff ==
    \A p \in Probes :
        /\ collides(board, p.type, p.x, p.y, p.rotation)
              <=> (\E pos \in CellsOf(p) : Outside(pos) \/ Settled(board, pos))
        /\ (\A pos \in CellsOf(p) : pos[1] < 0 /\ pos[2] \in 0..(COLS - 1))
              => ~collides(board, p.type, p.x, p.y, p.rotation)

\* The active piece has a cell above row 0 and does not collide where it
\* is; one row lower all its cells are inside the grid and it collides with
\* a settled cell.
C15_Witness ==
    /\ HasActive(Engine)
    /\ AboveTop(active)
    /\ ~collides(board, active.type, active.x, active.y, active.rotation)
    /\ collides(board, active.type, active.x, active.y + 1, active.rotation)
    /\ \A pos \in CellsOf([active EXCEPT !.y = active.y + 1]) :
          ~Outside(pos) /\ pos[1] >= 0

\* The rows of a board that have an empty cell, from top to bottom.
Kept(b) == SelectSeq(b, LAMBDA row : ~IsFull(row))

\* C16: clearLines returns the number of rows without an empty cell,
\* adjacent or apart, and the board it leaves is that many empty rows
\* followed by the other rows in their order, 22 rows of 10 cells with no
\* full row; on a board without a full row it returns 0 and the same board.
C16_ClearLines ==
    Locked =>
        LET stamped == stamp(prev.board, LockedAt(MaxDescent(prev)))
            res == clearLines(stamped)
            n == Cardinality(FullRows(stamped))
        IN /\ res.cleared = n
           /\ locks[Len(locks)] = n
           /\ board = res.board
           /\ board = [r \in 1..n |-> EmptyRow] \o Kept(stamped)
           /\ DOMAIN board = 1..TOTAL_ROWS
           /\ \A r \in 1..TOTAL_ROWS : DOMAIN board[r] = 1..COLS
           /\ FullRows(board) = {}
           /\ n = 0 => board = stamped
           /\ clearLines(board) = [board |-> board, cleared |-> 0]

\* One lock filled two rows with a row that stayed between them.
C16_Witness ==
    /\ Locked
    /\ \E r \in 1..(TOTAL_ROWS - 2) :
          LET full == FullRows(stamp(prev.board, LockedAt(MaxDescent(prev))))
          IN r \in full /\ r + 1 \notin full /\ r + 2 \in full
    /\ lines = prev.lines + 2

\* C17: a piece locked with a cell above row 0 writes its cells inside the
\* grid and ends the game: nothing is cleared, lines, level, combo and
\* backToBack stay, and no piece is spawned.  Any other lock writes all
\* four cells, clears the full rows, scores them, resets the lock timer,
\* the gravity timer and the soft-drop flag, and spawns the next piece of
\* the queue in the same call.
C17_Locking ==
    JustLocked =>
        LET landed == LockedAt(MaxDescent(prev))
            stamped == stamp(prev.board, landed)
            n == Cardinality(FullRows(stamped))
            descent == DescentScore(MaxDescent(prev))
        IN IF AboveTop(landed)
           THEN /\ board = stamped
                /\ DOMAIN board = 1..TOTAL_ROWS
                /\ state = "over"
                /\ lines = prev.lines /\ level = prev.level
                /\ combo = prev.combo /\ backToBack = prev.backToBack
                /\ gravityInterval = prev.gravityInterval
                /\ score = prev.score + descent
                /\ ~HasActive(Engine)
                /\ queue = prev.queue /\ dequeued = prev.dequeued
           ELSE /\ \A pos \in CellsOf(landed) :
                      /\ ~Outside(pos) /\ pos[1] >= 0
                      /\ stamped[pos[1] + 1][pos[2] + 1] = landed.type
                /\ board = [r \in 1..n |-> EmptyRow] \o Kept(stamped)
                /\ lines = prev.lines + n
                /\ level = (lines \div 10) + 1
                /\ combo = (IF n = 0 THEN -1
                            ELSE IF prev.combo = -1 THEN 0 ELSE prev.combo + 1)
                /\ backToBack = (IF n = 4 THEN prev.backToBack + 1 ELSE 0)
                /\ score = prev.score + descent
                           + LineClearScore(n, prev.level, prev.combo, prev.backToBack)
                /\ lockTimer = 0 /\ gravityTimer = 0 /\ ~softDropActive
                /\ Dequeues
                /\ NewType = Head(prev.queue)
                /\ IF SpawnCollides(board, NewType)
                   THEN state = "over" /\ ~HasActive(Engine)
                   ELSE state = "playing" /\ active = createPiece(NewType)

\* The last piece came to rest with a cell above row 0 and filled a row of
\* the grid: the row is still on the board, lines is unchanged and the
\* game is over.
C17_Witness ==
    /\ JustLocked
    /\ AboveTop(LockedAt(MaxDescent(prev)))
    /\ FullRows(board) # {}
    /\ lines = prev.lines
    /\ state = "over"

\* C18: a grounded active piece has never rested for 500 ms: the update
\* call at which the deltas of the calls that began with it grounded, with
\* no change to the piece in between, reach 500 ms has locked it.  The lock
\* timer is at least that time, and a move or rotation that changed the
\* piece has set the lock timer to 0 and started the count again.
C18_LockDelayBound ==
    /\ (HasActive(Engine) /\ grounded) => rested < LOCK_DELAY_MS
    /\ rested <= lockTimer
    /\ (last.op \in {"move", "rotate"} /\ active # prev.active)
          => (lockTimer = 0 /\ rested = 0)
    /\ (last.op = "update" /\ prev.state = "playing" /\ HasActive(prev)
            /\ prev.grounded /\ prev.lockTimer + last.arg >= LOCK_DELAY_MS)
          => JustLocked

\* A piece rested, was moved, rested for 400 ms more and was locked by the
\* next update of 200 ms.
C18_Witness ==
    /\ last.op = "update"
    /\ last.arg = 200
    /\ JustLocked
    /\ prev.grounded
    /\ prev.lockTimer = 400
    /\ Len(trail) >= 4
    /\ trail[Len(trail) - 3].op = "move"
    /\ trail[Len(trail) - 4].op = "update"

\* C19: update locks a piece only when the update calls that began with the
\* piece grounded, since it last changed, have accumulated 500 ms, this
\* call included; so it does not lock a piece that was not grounded when
\* the call began.
C19_GraceBeforeLock ==
    [][(/\ trail' # trail
        /\ trail'[Len(trail')].op = "update"
        /\ Len(locks') = Len(locks) + 1)
         => (grounded /\ rested + trail'[Len(trail')].arg >= LOCK_DELAY_MS)]_vars

Min(a, b) == IF a <= b THEN a ELSE b

\* update on a piece that the call does not lock: delta is added to the
\* gravity timer, the piece is stepped down once per interval the timer
\* holds (50 ms with soft drop on, else the gravity interval) as far as it
\* can descend, every step taken consumes one interval and scores 1 with
\* soft drop on, and a step that fails grounds the piece, ends the
\* stepping and consumes failedStepCost intervals.
GravityStepping(failedStepCost) ==
    (last.op = "update" /\ prev.state = "playing" /\ HasActive(prev) /\ ~JustLocked) =>
        LET interval == IF prev.softDropActive THEN SOFT_DROP_INTERVAL
                        ELSE prev.gravityInterval
            due == (prev.gravityTimer + last.arg) \div interval
            k == Min(due, MaxDescent(prev))
        IN /\ active = [prev.active EXCEPT !.y = prev.active.y + k]
           /\ score = prev.score + (IF prev.softDropActive THEN k ELSE 0)
           /\ k < due => grounded
           /\ gravityTimer = prev.gravityTimer + last.arg - k * interval
                             - (IF k < due THEN failedStepCost * interval ELSE 0)

\* C20 as stated: gravity stepping in update; each successful step consumes
\* one interval of the timer and scores 1 iff soft drop is on, and the
\* first failed step grounds the piece, ends the stepping of the call,
\* consumes no interval and scores nothing.
C20_FailedStepIsFree == GravityStepping(0)

\* C20 as amended: the same stepping, but the interval is taken off the
\* timer before the step is tried, so the failed step consumes one
\* interval too; it still scores nothing.
C20_FailedStepTakesInterval == GravityStepping(1)

\* With soft drop on an update stepped the piece down at least one row,
\* scored the rows, and then failed a step: the timer lost one interval
\* more than the rows stepped.
C20_Witness ==
    /\ last.op = "update"
    /\ prev.state = "playing"
    /\ HasActive(prev)
    /\ ~JustLocked
    /\ prev.softDropActive
    /\ active.y > prev.active.y
    /\ score = prev.score + (active.y - prev.active.y)
    /\ grounded
    /\ gravityTimer = prev.gravityTimer + last.arg
                      - (active.y - prev.active.y + 1) * SOFT_DROP_INTERVAL

\* C21: after every command an active piece exists exactly when the phase
\* is playing or paused.  In phase over there is none, and getActiveCells
\* and getGhostCells are empty; in phase playing or paused getActiveCells
\* lists the four cells of the piece, and so does getGhostCells when the
\* piece is grounded.
C21_ActiveIffNotOver ==
    /\ state \in {"playing", "paused", "over"}
    /\ HasActive(Engine) <=> state \in {"playing", "paused"}
    /\ state = "over" =>
          /\ active = NoPiece
          /\ getActiveCells(Engine) = <<>>
          /\ getGhostCells(Engine) = <<>>
    /\ state # "over" =>
          /\ active.type \in PieceTypeSet
          /\ Len(getActiveCells(Engine)) = 4
          /\ grounded => getGhostCells(Engine) = getActiveCells(Engine)

\* A piece was locked with no cell above row 0, the next piece was taken
\* off the queue and collided where it spawned: the game is over and the
\* piece that was just made active is gone.
C21_Witness ==
    /\ state = "over"
    /\ JustLocked
    /\ ~AboveTop(LockedAt(MaxDescent(prev)))
    /\ Dequeues
    /\ ~HasActive(Engine)
    /\ getActiveCells(prev) # <<>>

\* C22: after every command the active piece, when there is one, does not
\* collide: each of its four cells is in a column 0..COLS-1 and a row below
\* TOTAL_ROWS, and none of its cells at row 0 or lower is on a settled cell
\* of the board.
C22_ActiveNeverCollides ==
    HasActive(Engine) =>
        /\ active.rotation \in 0..3
        /\ ~collides(board, active.type, active.x, active.y, active.rotation)
        /\ Cardinality(CellsOf(active)) = 4
        /\ \A pos \in CellsOf(active) :
              /\ pos[2] >= 0 /\ pos[2] < COLS
              /\ pos[1] < TOTAL_ROWS
              /\ pos[1] >= 0 => board[pos[1] + 1][pos[2] + 1] = NULL

\* A move to the side was refused: one column further the piece would be
\* inside the column range and on a settled cell, and it is where it was.
C22_Witness ==
    /\ last.op = "move"
    /\ prev.state = "playing"
    /\ HasActive(Engine)
    /\ active = prev.active
    /\ LET shifted == [active EXCEPT !.x = active.x + last.arg]
       IN /\ \A pos \in CellsOf(shifted) : ~Outside(pos)
          /\ \E pos \in CellsOf(shifted) : Settled(board, pos)

\* The piece, one row lower, would have a cell below the last row or on a
\* settled cell of board b.
Resting(b, piece) ==
    \E pos \in CellsOf([piece EXCEPT !.y = piece.y + 1]) :
        pos[1] >= TOTAL_ROWS \/ Settled(b, pos)

\* C23: whenever there is an active piece the grounded flag is the grounded
\* check at its position: it is true exactly when the piece cannot descend
\* one row.  Every piece stamped into the board, by update or by hardDrop,
\* is stamped where it rests on the floor or on a settled cell.
C23_GroundedIsResting ==
    /\ HasActive(Engine) =>
          /\ grounded = checkGrounded(Engine)
          /\ grounded <=> Resting(board, active)
    /\ JustLocked =>
          LET landed == LockedAt(MaxDescent(prev))
              stamped == stamp(prev.board, landed)
          IN /\ last.op \in {"update", "hardDrop"}
             /\ Resting(prev.board, landed)
             /\ board = IF AboveTop(landed) THEN stamped ELSE clearLines(stamped).board

\* A grounded piece was moved to the side off the cells it rested on: it
\* can descend again and the flag is false.
C23_Witness ==
    /\ last.op = "move"
    /\ HasActive(prev)
    /\ prev.grounded
    /\ HasActive(Engine)
    /\ active.x # prev.active.x
    /\ ~grounded
    /\ ~Resting(board, active)

====
